---- MODULE Spec2Model ----
(***************************************************************************)
(* A model of EskomBillParser (src/eskombillparser.py): the field          *)
(* extraction of EskomBillProcessor, its batch loop, its exporter and      *)
(* main().                                                                 *)
(*                                                                         *)
(* Text is a sequence of tokens.  A token is one character (a digit, a     *)
(* blank, a punctuation mark) or one word or bill label whose characters   *)
(* all fall in the same character classes of the patterns used, so that a  *)
(* match of the source's regular expressions never ends inside a token.    *)
(***************************************************************************)
EXTENDS Integers, Sequences, FiniteSets, TLC

(***************************************************************************)
(* Bounds of the model.                                                    *)
(***************************************************************************)
MaxRawLen == 3
MaxDocs == 2
MaxRuns == 2
MaxCalls == 2
MaxTime == 2
TicksPerSecond == 2

(***************************************************************************)
(* Tokens and the character classes of the patterns.                       *)
(***************************************************************************)
Digit == {"0", "1", "2", "3", "4", "5", "6", "7", "8", "9"}

Space == {" ", "\n"}

\* single words of letters, in both cases
Alpha == {"NAME", "FAX", "name", "fax", "JOHN", "SMITH", "CO", "MAY", "R", "r",
          "CR", "ACTUAL", "N"}

\* labels of several words: word characters and blanks only
Phrase == {"YOUR ACCOUNT NO", "BILLING DATE", "TAX INVOICE NO", "ACCOUNT MONTH",
           "DUE DATE", "CURRENT ", "Opening Reading", "Closing Reading",
           "TOTAL ENERGY CONSUMED", "total energy consumed", "TOTAL AMOUNT DUE",
           "Network Capacity Charge", "Energy Charge",
           "TOTAL CHARGES FOR BILLING PERIOD", "READING TYPE", "per day"}

Punct == {",", ".", "-", "&", ":", "@", "+"}

Tokens == Digit \cup Space \cup Alpha \cup Phrase \cup Punct

\* \w
Word == Digit \cup Alpha

\* [\w,\s&]
NameChar == Word \cup Space \cup Phrase \cup {",", "&"}

\* [^\d]
NonDigit == Tokens \ Digit

\* [\d,.]
NumChar == Digit \cup {",", "."}

\* [\d,.-]
SignedNumChar == NumChar \cup {"-"}

\* [\d.]
RateChar == Digit \cup {"."}

\* re.IGNORECASE: the upper-case form of a token
Fold(t) ==
  CASE t = "name" -> "NAME"
    [] t = "fax" -> "FAX"
    [] t = "r" -> "R"
    [] t = "Opening Reading" -> "OPENING READING"
    [] t = "Closing Reading" -> "CLOSING READING"
    [] t = "total energy consumed" -> "TOTAL ENERGY CONSUMED"
    [] t = "Network Capacity Charge" -> "NETWORK CAPACITY CHARGE"
    [] t = "Energy Charge" -> "ENERGY CHARGE"
    [] t = "per day" -> "PER DAY"
    [] OTHER -> t

\* the first word of a token, where a run of \w ends inside a label
FirstWord(t) ==
  CASE t = "YOUR ACCOUNT NO" -> "YOUR"
    [] t = "BILLING DATE" -> "BILLING"
    [] t = "TAX INVOICE NO" -> "TAX"
    [] t = "ACCOUNT MONTH" -> "ACCOUNT"
    [] t = "DUE DATE" -> "DUE"
    [] t = "CURRENT " -> "CURRENT"
    [] t = "Opening Reading" -> "Opening"
    [] t = "Closing Reading" -> "Closing"
    [] t = "TOTAL ENERGY CONSUMED" -> "TOTAL"
    [] t = "total energy consumed" -> "total"
    [] t = "TOTAL AMOUNT DUE" -> "TOTAL"
    [] t = "Network Capacity Charge" -> "Network"
    [] t = "Energy Charge" -> "Energy"
    [] t = "TOTAL CHARGES FOR BILLING PERIOD" -> "TOTAL"
    [] t = "READING TYPE" -> "READING"
    [] t = "per day" -> "per"
    [] OTHER -> t

(***************************************************************************)
(* Optional values: Python's None, or a value.                             *)
(***************************************************************************)
None == [some |-> FALSE, v |-> <<>>]

Some(s) == [some |-> TRUE, v |-> s]

(***************************************************************************)
(* str.strip(): leading and trailing white space removed.                  *)
(***************************************************************************)
RECURSIVE LStrip(_)
LStrip(s) == IF s # <<>> /\ Head(s) \in Space THEN LStrip(Tail(s)) ELSE s

RECURSIVE RStrip(_)
RStrip(s) ==
  IF s # <<>> /\ s[Len(s)] \in Space THEN RStrip(SubSeq(s, 1, Len(s) - 1)) ELSE s

Strip(s) == RStrip(LStrip(s))

(***************************************************************************)
(* A backtracking matcher for the patterns of the source.  A pattern is a  *)
(* sequence of items:                                                      *)
(*   lit  c   one token of c (compared case-folded under IGNORECASE)       *)
(*   opt  c   (?:c)?                                                       *)
(*   cls  c   one token of the class c                                     *)
(*   plus c   c+      star c   c*      lazy c   c+?      rep c n   c{n}    *)
(*   open, close   the parentheses of group 1                              *)
(*   end      $                                                            *)
(*   alt  a   a1|a2|..., the rest of the pattern                           *)
(* Match gives the first match in the order Python's re tries them.        *)
(***************************************************************************)
Lit(c) == [k |-> "lit", c |-> c]
Opt(c) == [k |-> "opt", c |-> c]
Cls(c) == [k |-> "cls", c |-> c]
Plus(c) == [k |-> "plus", c |-> c]
Star(c) == [k |-> "star", c |-> c]
Lazy(c) == [k |-> "lazy", c |-> c]
Rep(c, n) == [k |-> "rep", c |-> c, n |-> n]
Open == [k |-> "open"]
Close == [k |-> "close"]
End == [k |-> "end"]
Alt(a) == [k |-> "alt", a |-> a]

NoMatch == [ok |-> FALSE, cs |-> 0, ce |-> 0]

\* the number of tokens of class c that follow one another from pos on
RECURSIVE Run(_, _, _)
Run(t, pos, c) ==
  IF pos <= Len(t) /\ t[pos] \in c THEN 1 + Run(t, pos + 1, c) ELSE 0

IsLit(ic, tok, c) == IF ic THEN Fold(tok) \in {Fold(x) : x \in c} ELSE tok \in c

\* one item that takes no choice: the position and the group after it
Step(ic, it, t, pos, cs, ce) ==
  CASE it.k = "lit" ->
         [ok |-> pos <= Len(t) /\ IsLit(ic, t[pos], it.c),
          pos |-> pos + 1, cs |-> cs, ce |-> ce]
    [] it.k = "cls" ->
         [ok |-> pos <= Len(t) /\ t[pos] \in it.c,
          pos |-> pos + 1, cs |-> cs, ce |-> ce]
    [] it.k = "rep" ->
         [ok |-> Run(t, pos, it.c) >= it.n, pos |-> pos + it.n, cs |-> cs, ce |-> ce]
    [] it.k = "open" -> [ok |-> TRUE, pos |-> pos, cs |-> pos, ce |-> ce]
    [] it.k = "close" -> [ok |-> TRUE, pos |-> pos, cs |-> cs, ce |-> pos]
    [] it.k = "end" ->
         [ok |-> pos = Len(t) + 1 \/ (pos = Len(t) /\ t[pos] = "\n"),
          pos |-> pos, cs |-> cs, ce |-> ce]

\* a repetition: the counts to try, from first to last in steps of by
Counts(ic, it, t, pos) ==
  CASE it.k = "plus" -> [first |-> Run(t, pos, it.c), last |-> 1, by |-> -1]
    [] it.k = "star" -> [first |-> Run(t, pos, it.c), last |-> 0, by |-> -1]
    [] it.k = "lazy" -> [first |-> 1, last |-> Run(t, pos, it.c), by |-> 1]
    [] it.k = "opt" ->
         [first |-> IF pos <= Len(t) /\ IsLit(ic, t[pos], it.c) THEN 1 ELSE 0,
          last |-> 0, by |-> -1]

\* the first of two attempts that matches
OrElse(m, other) == IF m.ok THEN m ELSE other

RECURSIVE Match(_, _, _, _, _, _, _)
RECURSIVE Try(_, _, _, _, _, _, _, _, _)
RECURSIVE FirstAlt(_, _, _, _, _, _, _)

Continue(ic, p, k, t, s) ==
  IF s.ok THEN Match(ic, p, k + 1, t, s.pos, s.cs, s.ce) ELSE NoMatch

TryAll(ic, p, k, t, pos, cs, ce, cnt) == Try(ic, p, k, t, pos, cs, ce, cnt.first, cnt)

Match(ic, p, k, t, pos, cs, ce) ==
  IF k > Len(p) THEN [ok |-> TRUE, cs |-> cs, ce |-> ce]
  ELSE IF p[k].k = "alt" THEN FirstAlt(ic, p[k].a, 1, t, pos, cs, ce)
  ELSE IF p[k].k \in {"plus", "star", "lazy", "opt"}
       THEN TryAll(ic, p, k, t, pos, cs, ce, Counts(ic, p[k], t, pos))
  ELSE Continue(ic, p, k, t, Step(ic, p[k], t, pos, cs, ce))

\* c+, c*, (?:c)?: the longest run first, then one token less; c+?: one
\* token first, then one more
Try(ic, p, k, t, pos, cs, ce, n, cnt) ==
  IF (cnt.by < 0 /\ n < cnt.last) \/ (cnt.by > 0 /\ n > cnt.last) THEN NoMatch
  ELSE OrElse(Match(ic, p, k + 1, t, pos + n, cs, ce),
              Try(ic, p, k, t, pos, cs, ce, n + cnt.by, cnt))

\* a1|a2|...: the first alternative that matches
FirstAlt(ic, a, i, t, pos, cs, ce) ==
  IF i > Len(a) THEN NoMatch
  ELSE OrElse(Match(ic, a[i], 1, t, pos, cs, ce),
              FirstAlt(ic, a, i + 1, t, pos, cs, ce))

\* the group of a match
Group(t, m) == IF m.ok THEN Some(SubSeq(t, m.cs, m.ce - 1)) ELSE None

\* the leftmost match from position i on
RECURSIVE SearchFrom(_, _, _, _)
SearchFrom(ic, p, t, i) ==
  IF i > Len(t) + 1 THEN NoMatch
  ELSE OrElse(Match(ic, p, 1, t, i, 0, 0), SearchFrom(ic, p, t, i + 1))

\* re.search(pattern, text).group(1), or None
Search(ic, p, t) == Group(t, SearchFrom(ic, p, t, 1))

StripGroup(g) == IF g.some THEN Some(Strip(g.v)) ELSE None

\* lines 12-15
extract_value(text, pattern) == StripGroup(Search(TRUE, pattern, text))

(***************************************************************************)
(* Numbers.  A float is kept as the decimal it was parsed from: m / 10^e,  *)
(* with no trailing zero in the fraction.                                  *)
(***************************************************************************)
RECURSIVE Normal(_, _)
Normal(m, e) ==
  IF e > 0 /\ m % 10 = 0 THEN Normal(m \div 10, e - 1) ELSE [m |-> m, e |-> e]

Zero == [m |-> 0, e |-> 0]

DigitVal(d) == CHOOSE n \in 0..9 : ToString(n) = d

RECURSIVE ToInt(_)
ToInt(ds) ==
  IF ds = <<>> THEN 0
  ELSE 10 * ToInt(SubSeq(ds, 1, Len(ds) - 1)) + DigitVal(ds[Len(ds)])

IsDigit(t) == t \in Digit

IsNotComma(t) == t # ","

\* str.replace(',', '')
RemoveCommas(s) == SelectSeq(s, IsNotComma)

\* float(s) on the tokens of the model: white space around the number is
\* ignored, then an optional sign, then digits with at most one point and at
\* least one digit.  ok = FALSE is ValueError.
ParseFloat(s) ==
  LET s1 == Strip(s)
      signed == s1 # <<>> /\ Head(s1) \in {"-", "+"}
      body == IF signed THEN Tail(s1) ELSE s1
      dots == {i \in 1..Len(body) : body[i] = "."}
      ok == /\ \A i \in 1..Len(body) : body[i] \in RateChar
            /\ Cardinality(dots) <= 1
            /\ \E i \in 1..Len(body) : body[i] \in Digit
      mag == ToInt(SelectSeq(body, IsDigit))
      e == IF dots = {} THEN 0 ELSE Len(body) - (CHOOSE i \in dots : TRUE)
  IN IF ~ok THEN [ok |-> FALSE, n |-> Zero]
     ELSE [ok |-> TRUE,
           n |-> Normal(IF signed /\ Head(s1) = "-" THEN 0 - mag ELSE mag, e)]

(***************************************************************************)
(* clean_numeric_value, lines 17-26.  raised: an exception leaves the      *)
(* function; warnings: the number of warnings printed.                     *)
(***************************************************************************)
\* lines 21-26: the float, or the warning and 0.0 on ValueError
TryFloat(f) ==
  IF f.ok THEN [raised |-> FALSE, val |-> f.n, warnings |-> 0]
  ELSE [raised |-> FALSE, val |-> Zero, warnings |-> 1]

\* a variant that forgets the literal "-"
clean_numeric_value_NoDash(value) ==
  IF ~value.some \/ value.v = <<>>
  THEN [raised |-> FALSE, val |-> Zero, warnings |-> 0]
  ELSE TryFloat(ParseFloat(RemoveCommas(value.v)))

clean_numeric_value(value) ==
  IF ~value.some \/ value.v = <<"-">> \/ value.v = <<>>
  THEN [raised |-> FALSE, val |-> Zero, warnings |-> 0]
  ELSE TryFloat(ParseFloat(RemoveCommas(value.v)))

(***************************************************************************)
(* clean_customer_name, lines 28-32:                                       *)
(*   NAME\s+([\w,\s&]+?)(?:\s*FAX|\s*$)                                    *)
(***************************************************************************)
CleanNamePattern ==
  << Lit({"NAME"}), Plus(Space), Open, Lazy(NameChar), Close,
     Alt(<< <<Star(Space), Lit({"FAX"})>>, <<Star(Space), End>> >>) >>

clean_customer_name(text) == StripGroup(Search(TRUE, CleanNamePattern, text))

(***************************************************************************)
(* calculate_vat, lines 34-39, of a float: 15 % of it, rounded to two      *)
(* decimals.  A tie of the decimal goes to the even neighbour; the binary  *)
(* float of the source may fall on either side of such a tie.              *)
(***************************************************************************)
RECURSIVE Pow10(_)
Pow10(n) == IF n = 0 THEN 1 ELSE 10 * Pow10(n - 1)

RoundHalfEven(num, den) ==
  LET q == num \div den
      r == num % den
  IN IF 2 * r > den \/ (2 * r = den /\ q % 2 = 1) THEN q + 1 ELSE q

calculate_vat(total_charges) ==
  LET num == total_charges.m * 15
      e == total_charges.e
  IN Some(Normal(RoundHalfEven(num, Pow10(e)), 2))

(***************************************************************************)
(* The patterns of process_pdf (lines 93-104) and extract_bill_data        *)
(* (lines 44-70).                                                          *)
(***************************************************************************)
\* LABEL\s+(\d+)
NumberPattern(label) == << Lit({label}), Plus(Space), Open, Plus(Digit), Close >>

\* LABEL\s+(\d{4}-\d{2}-\d{2})
DateBody ==
  << Open, Rep(Digit, 4), Cls({"-"}), Rep(Digit, 2), Cls({"-"}), Rep(Digit, 2), Close >>

BillingDatePattern == << Lit({"BILLING DATE"}), Plus(Space) >> \o DateBody

\* (?:CURRENT )?DUE DATE\s+(\d{4}-\d{2}-\d{2})
DueDatePattern == << Opt({"CURRENT "}), Lit({"DUE DATE"}), Plus(Space) >> \o DateBody

\* ACCOUNT MONTH\s+([A-Z]+ \d{4})
AccountMonthPattern ==
  << Lit({"ACCOUNT MONTH"}), Plus(Space), Open, Plus(Alpha), Cls({" "}),
     Rep(Digit, 4), Close >>

\* NAME\s+([\w,\s&]+)
NamePattern == << Lit({"NAME"}), Plus(Space), Open, Plus(NameChar), Close >>

\* LABEL[^\d]+([\d,.]+|-)
ReadingPattern(label) ==
  << Lit({label}), Plus(NonDigit), Open,
     Alt(<< <<Plus(NumChar), Close>>, <<Cls({"-"}), Close>> >>) >>

\* TOTAL AMOUNT DUE\s+R\s+([\d,.-]+)(?:CR)?
TotalDuePattern ==
  << Lit({"TOTAL AMOUNT DUE"}), Plus(Space), Lit({"R"}), Plus(Space), Open,
     Plus(SignedNumChar), Close, Opt({"CR"}) >>

\* TOTAL ENERGY CONSUMED[^\d]+([\d,.]+)
ConsumptionPattern ==
  << Lit({"TOTAL ENERGY CONSUMED"}), Plus(NonDigit), Open, Plus(NumChar), Close >>

\* Network Capacity Charge @ R([\d.]+) per day
NetworkRatePattern ==
  << Lit({"Network Capacity Charge"}), Lit({" "}), Lit({"@"}), Lit({" "}), Lit({"R"}),
     Open, Plus(RateChar), Close, Lit({" "}), Lit({"per day"}) >>

\* TOTAL CHARGES FOR BILLING PERIOD\s+R\s+([\d,.-]+)
ChargesPattern ==
  << Lit({"TOTAL CHARGES FOR BILLING PERIOD"}), Plus(Space), Lit({"R"}), Plus(Space),
     Open, Plus(SignedNumChar), Close >>

\* READING TYPE:\s+(\w+); the run of \w takes the first word of a label
\* that follows it
ReadingTypePattern ==
  << Lit({"READING TYPE"}), Lit({":"}), Plus(Space), Open,
     Alt(<< <<Plus(Word), Close>>, <<Close, Cls(Phrase)>> >>) >>

WordRun(text, m) ==
  IF ~m.ok THEN None
  ELSE IF m.ce <= Len(text) /\ text[m.ce] \in Phrase
  THEN Some(SubSeq(text, m.cs, m.ce - 1) \o <<FirstWord(text[m.ce])>>)
  ELSE Some(SubSeq(text, m.cs, m.ce - 1))

ReadingType(text) == WordRun(text, SearchFrom(TRUE, ReadingTypePattern, text, 1))

(***************************************************************************)
(* extract_bill_data, lines 41-83.  raised: an exception leaves it.        *)
(***************************************************************************)
\* float(group) of an optional match, lines 54 and 58: None stays None,
\* ValueError is not caught
FloatOf(g) ==
  IF ~g.some THEN [raised |-> FALSE, isfloat |-> FALSE, val |-> None]
  ELSE IF ParseFloat(g.v).ok
  THEN [raised |-> FALSE, isfloat |-> TRUE, val |-> Some(ParseFloat(g.v).n)]
  ELSE [raised |-> TRUE, isfloat |-> FALSE, val |-> None]

\* lines 63-67: 'if total_charges' is false for None and for '', which stay
\* as they are, with no VAT
ChargesOf(g) == IF g.some /\ g.v # <<>> THEN FloatOf(Some(RemoveCommas(g.v)))
                ELSE [raised |-> FALSE, isfloat |-> FALSE, val |-> g]

VatOf(charges) == IF charges.isfloat THEN calculate_vat(charges.val.v) ELSE None

BillData(text, consumption, network_rate, total_charges) ==
  IF consumption.raised \/ network_rate.raised \/ total_charges.raised
  THEN [raised |-> TRUE, rec |-> <<>>]
  ELSE [raised |-> FALSE,
        rec |-> [account_number |-> extract_value(text, NumberPattern("YOUR ACCOUNT NO")),
                 billing_date |-> extract_value(text, BillingDatePattern),
                 invoice_number |-> extract_value(text, NumberPattern("TAX INVOICE NO")),
                 account_month |-> extract_value(text, AccountMonthPattern),
                 customer_name |-> clean_customer_name(text),
                 consumption |-> consumption.val,
                 network_rate |-> network_rate.val,
                 total_charges |-> total_charges.val,
                 vat_amount |-> VatOf(total_charges),
                 reading_type |-> ReadingType(text)]]

ConsumptionOf(g) == IF g.some THEN FloatOf(Some(RemoveCommas(g.v))) ELSE FloatOf(g)

extract_bill_data(text) ==
  BillData(text,
           ConsumptionOf(Search(FALSE, ConsumptionPattern, text)),
           FloatOf(Search(FALSE, NetworkRatePattern, text)),
           ChargesOf(extract_value(text, ChargesPattern)))

(***************************************************************************)
(* The record of process_pdf, lines 92-105, for the text of a document,    *)
(* and the number of warnings clean_numeric_value prints on the way.       *)
(***************************************************************************)
NumericRaw(text) ==
  [opening_reading |-> extract_value(text, ReadingPattern("Opening Reading")),
   closing_reading |-> extract_value(text, ReadingPattern("Closing Reading")),
   consumption |-> extract_value(text, ReadingPattern("TOTAL ENERGY CONSUMED")),
   total_due |-> extract_value(text, TotalDuePattern),
   network_charge |-> extract_value(text, ReadingPattern("Network Capacity Charge")),
   energy_charge |-> extract_value(text, ReadingPattern("Energy Charge"))]

NumericColumns ==
  {"consumption", "total_due", "network_charge", "energy_charge",
   "opening_reading", "closing_reading"}

\* lines 99-104: the six values and the number of warnings
CleanAll(raw) == [c \in NumericColumns |-> clean_numeric_value(raw[c])]

RECURSIVE SumWarnings(_, _)
SumWarnings(cleaned, S) ==
  IF S = {} THEN 0
  ELSE LET x == CHOOSE y \in S : TRUE IN
       cleaned[x].warnings + SumWarnings(cleaned, S \ {x})

RecordOf(text, cleaned) ==
  [account_number |-> extract_value(text, NumberPattern("YOUR ACCOUNT NO")),
   billing_date |-> extract_value(text, BillingDatePattern),
   invoice_number |-> extract_value(text, NumberPattern("TAX INVOICE NO")),
   account_month |-> extract_value(text, AccountMonthPattern),
   due_date |-> extract_value(text, DueDatePattern),
   customer_name |-> extract_value(text, NamePattern),
   opening_reading |-> cleaned.opening_reading.val,
   closing_reading |-> cleaned.closing_reading.val,
   consumption |-> cleaned.consumption.val,
   total_due |-> cleaned.total_due.val,
   network_charge |-> cleaned.network_charge.val,
   energy_charge |-> cleaned.energy_charge.val]

BuildRecord(text) == RecordOf(text, CleanAll(NumericRaw(text)))

BuildWarnings(text) == SumWarnings(CleanAll(NumericRaw(text)), NumericColumns)

(***************************************************************************)
(* Documents.  pdfplumber.open raises on a document it cannot read; a page *)
(* gives its text, or None when the library finds no text layer.           *)
(***************************************************************************)
RECURSIVE JoinPages(_)
JoinPages(pages) ==
  IF pages = <<>> THEN <<>>
  ELSE IF Len(pages) = 1 THEN pages[1].v
  ELSE pages[1].v \o <<"\n">> \o JoinPages(Tail(pages))

\* a line printed on the console; n: the number it shows, if any
Notice(msg) == [msg |-> msg, n |-> 0]

(***************************************************************************)
(* export_to_csv, lines 114-140.                                           *)
(***************************************************************************)
\* '%.2f' of a number, in hundredths
Fmt2(n) ==
  IF n.e <= 2 THEN n.m * Pow10(2 - n.e) ELSE RoundHalfEven(n.m, Pow10(n.e - 2))

\* lines 120-127 and 135: one row per record, the numeric columns with two
\* decimals, None as an empty cell
CsvRows(records) ==
  [i \in 1..Len(records) |->
     [c \in DOMAIN records[i] |->
        IF c \in NumericColumns THEN <<Fmt2(records[i][c])>>
        ELSE records[i][c].v]]

\* line 130: strftime("%Y%m%d_%H%M%S") keeps the seconds of the clock and
\* drops what is below a second
Timestamp(now) == ToString(now \div TicksPerSecond)

\* os.path.splitext: the extension is the last token when it starts with a dot
Extensions == {".csv", ".pdf", ".txt"}

SplitExt(path) ==
  IF path # <<>> /\ path[Len(path)] \in Extensions
  THEN [root |-> SubSeq(path, 1, Len(path) - 1), ext |-> <<path[Len(path)]>>]
  ELSE [root |-> path, ext |-> <<>>]

\* lines 130-132
OutputPath(base_output_path, now) ==
  LET sp == SplitExt(base_output_path) IN
  sp.root \o <<"_", Timestamp(now)>> \o sp.ext

\* lines 134-140: the value returned, the path and the rows written (if any)
\* and the notice; writable = FALSE: to_csv raises, which is caught; raised:
\* an exception leaves export_to_csv
ToCsv(rows, output_path, writable) ==
  IF writable
  THEN [raised |-> FALSE, ret |-> TRUE, wrote |-> Some(output_path), rows |-> rows,
        out |-> Notice("Data exported to")]
  ELSE [raised |-> FALSE, ret |-> FALSE, wrote |-> None, rows |-> <<>>,
        out |-> Notice("Error exporting data")]

\* a variant without the test for an empty record list
export_to_csv_NoEmptyCheck(records, base_output_path, now, writable) ==
  ToCsv(CsvRows(records), OutputPath(base_output_path, now), writable)

export_to_csv(records, base_output_path, now, writable) ==
  IF records = <<>>
  THEN [raised |-> FALSE, ret |-> FALSE, wrote |-> None, rows |-> <<>>,
        out |-> Notice("No data to export")]
  ELSE ToCsv(CsvRows(records), OutputPath(base_output_path, now), writable)

(***************************************************************************)
(* The environment: pages of bills, documents, directories, user input.    *)
(***************************************************************************)
PageName ==
  <<"NAME", " ", "JOHN", " ", "SMITH", " ", "&", " ", "CO", " ", "FAX", " ",
    "0", "1", "1", "-", "1", "2", "3", "4", "5", "6", "7">>

PageCredit ==
  <<"YOUR ACCOUNT NO", " ", "5", "5", "\n",
    "TOTAL AMOUNT DUE", " ", "R", " ", "-", "1", ",", "2", "3", "4", ".", "5", "6", "CR">>

PageReadings ==
  <<"Opening Reading", ":", " ", "-", "\n",
    "Closing Reading", " ", "1", ".", "2", ".", "3", "\n",
    "TOTAL ENERGY CONSUMED", " ", "1", ",", "2", "3", "4", ".", "5", "\n",
    "READING TYPE", ":", " ", "ACTUAL">>

Corrupt == [readable |-> FALSE, pages |-> <<>>]

NoTextLayer == [readable |-> TRUE, pages |-> <<None>>]

BillA == [readable |-> TRUE, pages |-> <<Some(PageName), Some(PageCredit)>>]

BillB == [readable |-> TRUE, pages |-> <<Some(PageReadings)>>]

Documents == {Corrupt, NoTextLayer, BillA, BillB}

\* a directory entry: a document under a name that ends in .pdf, or not
Entries ==
  {[pdf |-> TRUE, doc |-> d] : d \in Documents} \cup {[pdf |-> FALSE, doc |-> BillB]}

RECURSIVE SeqsUpTo(_, _)
SeqsUpTo(S, n) ==
  IF n = 0 THEN {<<>>}
  ELSE LET shorter == SeqsUpTo(S, n - 1) IN
       shorter \cup {Append(q, x) : q \in {r \in shorter : Len(r) = n - 1}, x \in S}

Cwd == <<"cwd">>

ExistingDirs == {Cwd, <<"bills">>}

Inputs == {<<>>, <<" ">>, <<"bills">>, <<" ", "bills", "\n">>, <<"nowhere">>}

\* os.path.isdir
isdir(d) == d \in ExistingDirs

\* Path(directory).glob('*.pdf'), line 144, in the order the listing gives
IsPdf(entry) == entry.pdf

EntryDoc(entries) == [i \in 1..Len(entries) |-> entries[i].doc]

glob(entries) == EntryDoc(SelectSeq(entries, IsPdf))

\* os.path.join(pdf_dir, "eskom_bills_processed.csv"), line 171
BasePath(dir) == dir \o <<"/", "eskom_bills_processed", ".csv">>

(***************************************************************************)
(* process_pdf, lines 85-112.                                              *)
(***************************************************************************)
\* lines 88-89: raised = an exception inside the with block
ReadText(doc) ==
  IF ~doc.readable \/ \E i \in 1..Len(doc.pages) : ~doc.pages[i].some
  THEN [raised |-> TRUE, text |-> <<>>]
  ELSE [raised |-> FALSE, text |-> JoinPages(doc.pages)]

\* lines 92-105
Extract(r) ==
  IF r.raised THEN [raised |-> TRUE, rec |-> <<>>, warnings |-> 0]
  ELSE [raised |-> FALSE, rec |-> BuildRecord(r.text),
        warnings |-> BuildWarnings(r.text)]

\* lines 88-105 for each document of the model: what the with block does is
\* a function of the document alone
Outcome == [d \in Documents |-> Extract(ReadText(d))]

\* a variant that puts the new record first
Handle_Prepend(r, records) ==
  IF r.raised
  THEN [ret |-> FALSE, data |-> records, out |-> <<Notice("Error processing")>>]
  ELSE [ret |-> TRUE, data |-> <<r.rec>> \o records,
        out |-> [i \in 1..r.warnings |-> Notice("Warning: Could not convert")]]

\* lines 107-112: the value returned, the record list afterwards, the notices
Handle(r, records) ==
  IF r.raised
  THEN [ret |-> FALSE, data |-> records, out |-> <<Notice("Error processing")>>]
  ELSE [ret |-> TRUE, data |-> Append(records, r.rec),
        out |-> [i \in 1..r.warnings |-> Notice("Warning: Could not convert")]]

process_pdf(doc, records) == Handle(Outcome[doc], records)

(***************************************************************************)
(* The state.                                                              *)
(***************************************************************************)
VARIABLES
  pc,             \* where the process is: "main", "loop", "export", "done",
                  \* "exited" in main(); "lib" when the class is used directly
  run,            \* the number of processes started
  calls,          \* the number of direct calls of the methods ("lib")
  user_input,     \* what the user typed at the prompt
  pdf_dir,        \* main's pdf_dir
  pdf_files,      \* process_directory's candidates, in glob order
  next,           \* the index of the next candidate of the for loop
  status,         \* per candidate: "PENDING", "PROCESSED" or "FAILED"
  attempts,       \* per candidate: the number of calls of process_pdf on it
  data,           \* EskomBillProcessor.data, the record list
  success_count,  \* process_directory's success_count
  console,        \* what the process has printed
  export_ret,     \* what the last export_to_csv returned: "none", "True", "False"
                  \* ("raised": it did not return)
  csv,            \* the rows the last export of this process wrote
  files,          \* the paths of the output files on disk
  written,        \* the paths the successful exports wrote, in order
  clock,          \* datetime.now(), in ticks
  fn              \* a function applied on its own: its name, argument and result

vars == <<pc, run, calls, user_input, pdf_dir, pdf_files, next, status, attempts,
          data, success_count, console, export_ret, csv, files, written, clock, fn>>

process == <<pc, calls, user_input, pdf_dir, pdf_files, next, status, attempts, data,
             success_count, console, export_ret, csv>>

NoCall == [op |-> "none", arg |-> None, text |-> <<>>, res |-> None]

Fresh ==
  /\ user_input = <<>>
  /\ pdf_dir = <<>>
  /\ pdf_files = <<>>
  /\ next = 1
  /\ status = <<>>
  /\ attempts = <<>>
  /\ data = <<>>
  /\ calls = 0
  /\ success_count = 0
  /\ console = <<>>
  /\ export_ret = "none"
  /\ csv = <<>>

\* line 158 (lines 9-10): a new processor, in main() or in a caller's code
Init ==
  /\ pc \in {"main", "lib"}
  /\ run = 1
  /\ Fresh
  /\ files = {}
  /\ written = <<>>
  /\ clock = 0
  /\ fn = NoCall

\* a variant that prints the notice and goes on: a directory that does not
\* exist lists nothing
MainStep_NoReturn(dir, entries) ==
  IF ~isdir(dir)
  THEN [pc |-> "loop", out |-> <<Notice("Invalid directory path!")>>,
        pdf_files |-> <<>>]
  ELSE [pc |-> "loop", out |-> <<>>, pdf_files |-> glob(entries)]

\* lines 163-165 and 144-145: the directory check, then the listing
MainStep(dir, entries) ==
  IF ~isdir(dir)
  THEN [pc |-> "exited", out |-> <<Notice("Invalid directory path!")>>,
        pdf_files |-> <<>>]
  ELSE [pc |-> "loop", out |-> <<>>, pdf_files |-> glob(entries)]

\* line 161: input(...).strip() or os.getcwd()
PromptDir(typed) == IF Strip(typed) # <<>> THEN Strip(typed) ELSE Cwd

Main ==
  /\ pc = "main"
  /\ \E typed \in Inputs, entries \in SeqsUpTo(Entries, MaxDocs) :
       \E r \in {MainStep(PromptDir(typed), entries)} :
          /\ user_input' = typed
          /\ pc' = r.pc
          /\ console' = console \o r.out
          /\ pdf_dir' = PromptDir(typed)
          /\ pdf_files' = r.pdf_files
          /\ status' = [i \in 1..Len(r.pdf_files) |-> "PENDING"]
          /\ attempts' = [i \in 1..Len(r.pdf_files) |-> 0]
  /\ next' = 1
  /\ success_count' = 0
  /\ UNCHANGED <<run, calls, data, export_ret, csv, files, written, clock, fn>>

\* a variant that leaves the loop at the first document that fails
Turn_AbortOnFailure(r, count) ==
  [data |-> r.data,
   success_count |-> IF r.ret THEN count + 1 ELSE count,
   status |-> IF r.ret THEN "PROCESSED" ELSE "FAILED",
   out |-> IF r.ret THEN r.out \o <<Notice("Successfully processed")>> ELSE r.out,
   next |-> IF r.ret THEN 1 ELSE MaxDocs + 1]

\* lines 147-150: one turn of the for loop
Turn(r, count) ==
  [data |-> r.data,
   success_count |-> IF r.ret THEN count + 1 ELSE count,
   status |-> IF r.ret THEN "PROCESSED" ELSE "FAILED",
   out |-> IF r.ret THEN r.out \o <<Notice("Successfully processed")>> ELSE r.out,
   next |-> 1]

LoopStep(doc, records, count) == Turn(process_pdf(doc, records), count)

Loop ==
  /\ pc = "loop"
  /\ next <= Len(pdf_files)
  /\ \E r \in {LoopStep(pdf_files[next], data, success_count)} :
       /\ data' = r.data
       /\ success_count' = r.success_count
       /\ status' = [status EXCEPT ![next] = r.status]
       /\ attempts' = [attempts EXCEPT ![next] = @ + 1]
       /\ console' = console \o r.out
       /\ next' = next + r.next
  /\ UNCHANGED <<pc, run, calls, user_input, pdf_dir, pdf_files, export_ret, csv,
                 files, written, clock, fn>>

\* lines 152-155: the summary after the loop
Report(count) ==
  IF count = 0
  THEN Notice("No PDF files were successfully processed")
  ELSE [msg |-> "Successfully processed PDF files", n |-> count]

Summary ==
  /\ pc = "loop"
  /\ next > Len(pdf_files)
  /\ console' = Append(console, Report(success_count))
  /\ pc' = "export"
  /\ UNCHANGED <<run, calls, user_input, pdf_dir, pdf_files, next, status, attempts,
                 data, success_count, export_ret, csv, files, written, clock, fn>>

\* what a call of export_to_csv leaves behind
Exported(r) ==
  /\ export_ret' = IF r.raised THEN "raised" ELSE IF r.ret THEN "True" ELSE "False"
  /\ csv' = r.rows
  /\ files' = IF r.wrote.some THEN files \cup {r.wrote.v} ELSE files
  /\ written' = IF r.wrote.some THEN Append(written, r.wrote.v) ELSE written
  /\ console' = Append(console, r.out)

\* lines 170-172
Export ==
  /\ pc = "export"
  /\ \E writable \in BOOLEAN :
       Exported(export_to_csv(data, BasePath(pdf_dir), clock, writable))
  /\ pc' = "done"
  /\ UNCHANGED <<run, calls, user_input, pdf_dir, pdf_files, next, status, attempts,
                 data, success_count, clock, fn>>

\* process_pdf called by other code than process_directory
CallProcessPdf ==
  /\ pc = "lib"
  /\ calls < MaxCalls
  /\ calls' = calls + 1
  /\ \E doc \in Documents :
       \E r \in {process_pdf(doc, data)} :
         /\ data' = r.data
         /\ console' = console \o r.out
  /\ UNCHANGED <<pc, run, user_input, pdf_dir, pdf_files, next, status, attempts,
                 success_count, export_ret, csv, files, written, clock, fn>>

\* the base paths such a caller passes: with an extension, and without
Bases == {BasePath(Cwd), <<"out">>}

\* export_to_csv called by other code than main
CallExportToCsv ==
  /\ pc = "lib"
  /\ calls < MaxCalls
  /\ calls' = calls + 1
  /\ \E base \in Bases, writable \in BOOLEAN :
       Exported(export_to_csv(data, base, clock, writable))
  /\ UNCHANGED <<pc, run, user_input, pdf_dir, pdf_files, next, status, attempts,
                 data, success_count, clock, fn>>

\* the program, or the code that uses the class, is started again: a new
\* process, the same disk and clock
NewRun ==
  /\ pc \in {"done", "exited", "lib"}
  /\ run < MaxRuns
  /\ run' = run + 1
  /\ pc' \in {"main", "lib"}
  /\ user_input' = <<>>
  /\ pdf_dir' = <<>>
  /\ pdf_files' = <<>>
  /\ next' = 1
  /\ status' = <<>>
  /\ attempts' = <<>>
  /\ data' = <<>>
  /\ calls' = 0
  /\ success_count' = 0
  /\ console' = <<>>
  /\ export_ret' = "none"
  /\ csv' = <<>>
  /\ UNCHANGED <<files, written, clock, fn>>

\* time passes
Tick ==
  /\ clock < MaxTime
  /\ clock' = clock + 1
  /\ UNCHANGED <<process, run, files, written, fn>>

Next ==
  \/ Main
  \/ Loop
  \/ Summary
  \/ Export
  \/ CallProcessPdf
  \/ CallExportToCsv
  \/ NewRun
  \/ Tick

Spec == Init /\ [][Next]_vars

(***************************************************************************)
(* The functions of the class applied on their own, to every raw value up  *)
(* to MaxRawLen characters and to the texts that carry such a value after  *)
(* a label of the bill.                                                    *)
(***************************************************************************)
RawAlphabet == {"1", "0", ",", ".", "-", "N", " "}

\* "1,234.56" and "N/A"
Examples == {<<"1", ",", "2", "3", "4", ".", "5", "6">>, <<"N", "/", "A">>}

RawValues ==
  {None} \cup {Some(r) : r \in SeqsUpTo(RawAlphabet, MaxRawLen) \cup Examples}

\* where a value stands in a bill: the tokens before it and after it
Forms ==
  { [pre |-> <<"Opening Reading", " ">>, post |-> <<>>],
    [pre |-> <<"TOTAL AMOUNT DUE", " ", "R", " ">>, post |-> <<"CR">>],
    [pre |-> <<"TOTAL ENERGY CONSUMED", ":", " ">>, post |-> <<"\n">>],
    [pre |-> <<"Network Capacity Charge", " ", "@", " ", "R">>,
     post |-> <<" ", "per day">>],
    [pre |-> <<"TOTAL CHARGES FOR BILLING PERIOD", " ", "R", " ">>, post |-> <<>>],
    [pre |-> <<"YOUR ACCOUNT NO", " ">>, post |-> <<"\n">>],
    [pre |-> <<"NAME", " ">>, post |-> <<>>],
    [pre |-> <<"NAME", " ">>, post |-> <<" ", "FAX", " ", "1">>] }

\* the text of a bill with the value at that place; None: the label is missing
TextOf(form, raw) == IF raw.some THEN form.pre \o raw.v \o form.post ELSE <<>>

Applied(op, text, res) == fn' = [fn EXCEPT !.op = op, !.text = text, !.res = res]

InitFn ==
  /\ pc = "fn"
  /\ run = 1
  /\ Fresh
  /\ files = {}
  /\ written = <<>>
  /\ clock = 0
  /\ fn \in {[op |-> "none", arg |-> a, text |-> <<>>, res |-> None] : a \in RawValues}

ApplyCleanNumericValue ==
  /\ fn.op = "none"
  /\ Applied("clean_numeric_value", <<>>, clean_numeric_value(fn.arg))
  /\ UNCHANGED <<process, run, files, written, clock>>

ApplyCleanCustomerName ==
  /\ fn.op = "none"
  /\ \E form \in Forms :
       Applied("clean_customer_name", TextOf(form, fn.arg),
               clean_customer_name(TextOf(form, fn.arg)))
  /\ UNCHANGED <<process, run, files, written, clock>>

ApplyCalculateVat ==
  /\ fn.op = "none"
  /\ fn.arg.some
  /\ ParseFloat(fn.arg.v).ok
  /\ Applied("calculate_vat", <<>>, calculate_vat(ParseFloat(fn.arg.v).n))
  /\ UNCHANGED <<process, run, files, written, clock>>

ApplyExtractBillData ==
  /\ fn.op = "none"
  /\ \E form \in Forms :
       Applied("extract_bill_data", TextOf(form, fn.arg),
               extract_bill_data(TextOf(form, fn.arg)))
  /\ UNCHANGED <<process, run, files, written, clock>>

\* lines 92-105 of process_pdf, which no exception can leave
ApplyBuildRecord ==
  /\ fn.op = "none"
  /\ \E form \in Forms :
       Applied("process_pdf", TextOf(form, fn.arg),
               [raised |-> FALSE, rec |-> BuildRecord(TextOf(form, fn.arg)),
                warnings |-> BuildWarnings(TextOf(form, fn.arg))])
  /\ UNCHANGED <<process, run, files, written, clock>>

NextFn ==
  \/ ApplyCleanNumericValue
  \/ ApplyCleanCustomerName
  \/ ApplyCalculateVat
  \/ ApplyExtractBillData
  \/ ApplyBuildRecord

SpecFn == InitFn /\ [][NextFn]_vars

(***************************************************************************)
(* The claims.                                                             *)
(***************************************************************************)
InMain == pc \in {"loop", "export", "done", "exited"}

Raises(doc) == doc \in {Corrupt, NoTextLayer}

Last(q) == q[Len(q)]

RECURSIVE CountStatus(_, _)
CountStatus(st, which) ==
  IF st = <<>> THEN 0
  ELSE (IF Head(st) = which THEN 1 ELSE 0) + CountStatus(Tail(st), which)

\* the summary line of process_directory on the console
Reported == console[Len(console) - (IF pc = "done" THEN 1 ELSE 0)]

\* C1: process_directory attempts every candidate exactly once, a document
\* that raises is FAILED and every other is PROCESSED whatever came before
\* it, and at the end of the loop the reported success_count is the number
\* of PROCESSED documents, which is the number of records appended.
C1_EveryDocumentAttemptedOnce ==
  /\ pc = "loop" =>
       /\ \A i \in 1..Len(pdf_files) :
            /\ attempts[i] = (IF i < next THEN 1 ELSE 0)
            /\ i >= next => status[i] = "PENDING"
       /\ success_count = CountStatus(status, "PROCESSED")
  /\ pc \in {"export", "done"} =>
       /\ \A i \in 1..Len(pdf_files) :
            /\ attempts[i] = 1
            /\ status[i] = (IF Raises(pdf_files[i]) THEN "FAILED" ELSE "PROCESSED")
       /\ success_count = CountStatus(status, "PROCESSED")
       /\ Len(data) = success_count
       /\ Reported.n = success_count
       /\ Reported.msg = (IF success_count = 0
                          THEN "No PDF files were successfully processed"
                          ELSE "Successfully processed PDF files")

\* a corrupt document first, then a valid one: one record, success_count = 1
C1_Witness ==
  /\ pc = "done"
  /\ pdf_files = <<Corrupt, BillA>>
  /\ status = <<"FAILED", "PROCESSED">>
  /\ success_count = 1
  /\ Len(data) = 1

\* C2: with an empty record list main still goes from the loop to the
\* export, where export_to_csv prints the warning, returns False and writes
\* nothing; a file is written only when the record list is not empty.
C2_EmptyExportIsSkipped ==
  /\ [](pc = "done" /\ data = <<>> =>
          /\ export_ret = "False"
          /\ csv = <<>>
          /\ Last(console) = Notice("No data to export"))
  /\ [][/\ (pc = "loop" /\ pc' # "loop") => pc' = "export"
        /\ (pc = "export" /\ pc' # "export") => pc' = "done"
        /\ (pc = "export" /\ data = <<>> /\ console' # console) =>
              /\ files' = files
              /\ Last(console') = Notice("No data to export")
        /\ (pc = "lib" /\ data = <<>> /\ data' = <<>> /\ calls' = calls + 1
              /\ console' # console /\ Last(console').msg # "Error processing") =>
              /\ files' = files
              /\ export_ret' = "False"
              /\ Last(console') = Notice("No data to export")
        /\ files' # files => (data # <<>> /\ data' = data)]_vars

\* every document of the directory failed, and the export was still tried
C2_Witness ==
  /\ pc = "done"
  /\ pdf_files # <<>>
  /\ data = <<>>
  /\ export_ret = "False"
  /\ Last(console) = Notice("No data to export")

\* C3: two successful exports that follow one another write two different
\* files (exports with different base paths do so in any case).
C3_ConsecutiveExportsDistinct ==
  \A i \in 1..(Len(written) - 1) : written[i] # written[i + 1]

\* C4: every record of the record list has exactly the declared fields of a
\* BillRecord; a text field that was not found is null, a numeric one 0.0.
BillRecordFields ==
  {"account_number", "invoice_number", "billing_date", "due_date", "account_month",
   "customer_name", "opening_reading", "closing_reading", "consumption",
   "network_charge", "energy_charge", "total_due", "reading_type"}

C4_RecordHasDeclaredFields ==
  \A i \in 1..Len(data) : DOMAIN data[i] = BillRecordFields

\* the k-th document of the run that was PROCESSED
RECURSIVE ProcessedUpTo(_)
ProcessedUpTo(i) ==
  IF i = 0 THEN <<>>
  ELSE IF status[i] = "PROCESSED" THEN Append(ProcessedUpTo(i - 1), pdf_files[i])
  ELSE ProcessedUpTo(i - 1)

HasNamePage(doc) == \E j \in 1..Len(doc.pages) : doc.pages[j] = Some(PageName)

\* C6: the customer_name of a record is the text after NAME, trimmed and cut
\* before FAX: a document with NAME JOHN SMITH & CO FAX 011-1234567 gives
\* exactly JOHN SMITH & CO.
C6_CustomerNameCutBeforeFax ==
  pc \in {"loop", "export", "done"} =>
    \A k \in 1..Len(data) :
      HasNamePage(ProcessedUpTo(Len(pdf_files))[k]) =>
        data[k].customer_name = Some(<<"JOHN", " ", "SMITH", " ", "&", " ", "CO">>)

\* C7: the six numeric fields of every record are greater than or equal to 0.
C7_NumericFieldsNonNegative ==
  \A i \in 1..Len(data) : \A c \in NumericColumns : data[i][c].m >= 0

\* C9: with a directory that does not exist the run ends right after the
\* notice: nothing is listed, attempted, recorded or exported, and nothing
\* follows but a new process; main goes on only with a directory that
\* exists, and the empty input is the current working directory.
C9_InvalidDirectoryEndsRun ==
  /\ [](/\ pc = "exited" =>
             /\ ~isdir(pdf_dir)
             /\ console = <<Notice("Invalid directory path!")>>
             /\ pdf_files = <<>>
             /\ attempts = <<>>
             /\ data = <<>>
             /\ export_ret = "none"
             /\ csv = <<>>
        /\ pc \in {"loop", "export", "done"} => isdir(pdf_dir)
        /\ (InMain /\ user_input = <<>>) => (pdf_dir = Cwd /\ pc # "exited"))
  /\ [][pc = "exited" =>
          \/ (pc' = "exited" /\ files' = files /\ data' = data)
          \/ run' = run + 1]_vars

C9_Witness ==
  /\ pc = "exited"
  /\ user_input = <<"nowhere">>
  /\ console = <<Notice("Invalid directory path!")>>

\* the step is a call of export_to_csv: it printed one of its three notices
ExportNotices == {"No data to export", "Data exported to", "Error exporting data"}

ExportCalled ==
  /\ Len(console') = Len(console) + 1
  /\ Last(console').msg \in ExportNotices

\* the step is a call of process_pdf
PdfCalled ==
  \/ (pc = "loop" /\ next' = next + 1)
  \/ (pc = "lib" /\ calls' = calls + 1 /\ ~ExportCalled)

PdfFailed == PdfCalled /\ console' # console /\ Last(console').msg = "Error processing"

\* C10: within a process the record list only grows at its end: every step
\* keeps the records there are, a failed document adds none, a successful
\* one adds exactly one, and a call of export_to_csv adds none and returns
\* True or False, False with the notice of the failure when the path cannot
\* be written.
C10_RecordListAppendOnly ==
  [][run' = run =>
       /\ Len(data') >= Len(data)
       /\ SubSeq(data', 1, Len(data)) = data
       /\ PdfFailed => data' = data
       /\ (PdfCalled /\ ~PdfFailed) => Len(data') = Len(data) + 1
       /\ ~PdfCalled => data' = data
       /\ ExportCalled =>
            /\ data' = data
            /\ export_ret' \in {"True", "False"}
            /\ Last(console').msg = "Error exporting data" =>
                 (export_ret' = "False" /\ files' = files)]_vars

\* an export that failed on its path, with the records still in the list
C10_Witness ==
  /\ data # <<>>
  /\ export_ret = "False"
  /\ Last(console) = Notice("Error exporting data")

\* C5: clean_numeric_value never raises and returns a number; None, '' and
\* '-' give 0.0 without a warning; digits with commas give the number of
\* the digits ("1,234.56" gives 1234.56); what is no number gives 0.0 with
\* exactly one warning.
OnlyDigitsAndCommas(v) ==
  /\ \A i \in 1..Len(v) : v[i] \in Digit \cup {","}
  /\ \E i \in 1..Len(v) : v[i] \in Digit

HasLetter(v) == \E i \in 1..Len(v) : v[i] \in {"N", "A", "/"}

C5_CleanNumericValueTotal ==
  fn.op = "clean_numeric_value" =>
    /\ ~fn.res.raised
    /\ fn.res.val \in [m : Int, e : Nat]
    /\ fn.res.warnings \in {0, 1}
    /\ fn.res.warnings = 1 => fn.res.val = Zero
    /\ fn.arg \in {None, Some(<<>>), Some(<<"-">>)} =>
         (fn.res.val = Zero /\ fn.res.warnings = 0)
    /\ (fn.arg.some /\ OnlyDigitsAndCommas(fn.arg.v)) =>
         /\ fn.res.val = [m |-> ToInt(SelectSeq(fn.arg.v, IsDigit)), e |-> 0]
         /\ fn.res.warnings = 0
    /\ fn.arg = Some(<<"1", ",", "2", "3", "4", ".", "5", "6">>) =>
         (fn.res.val = [m |-> 123456, e |-> 2] /\ fn.res.warnings = 0)
    /\ (fn.arg.some /\ HasLetter(fn.arg.v)) =>
         (fn.res.val = Zero /\ fn.res.warnings = 1)

C5_Witness ==
  /\ fn.op = "clean_numeric_value"
  /\ fn.arg = Some(<<"1", ",", "2", "3", "4", ".", "5", "6">>)
  /\ fn.res = [raised |-> FALSE, val |-> [m |-> 123456, e |-> 2], warnings |-> 0]

\* C8: no exception leaves the record builder, in extract_bill_data and in
\* the extraction of process_pdf, whatever the text.
C8_BuilderNeverRaises ==
  fn.op \in {"extract_bill_data", "process_pdf"} => ~fn.res.raised

====
